---- MODULE Spec2Model ----
(***************************************************************************)
(* chronotag: a prefixing logger wrapper with beacon timing, and the       *)
(* one-time global logging configuration (src/chronotag/__init__.py).      *)
(*                                                                         *)
(* Threads of one process call the module's functions and the wrapper's    *)
(* methods.  A call is modelled by one action per access to shared state   *)
(* (the module flag, the root logger, a wrapper's attributes, the clock,   *)
(* the emitted records), since the interpreter may switch threads between  *)
(* any two of them.  Purely local computation is folded into the step that *)
(* follows it.                                                             *)
(***************************************************************************)
EXTENDS Integers, Sequences, FiniteSets, TLC

VARIABLES
    logging_configured, \* the module flag _logging_configured
    gcl_available,      \* _GOOGLE_CLOUD_LOGGING_AVAILABLE, fixed at import
    root,               \* the root logger: [level, handlers]
    wrappers,           \* the PrefixedLogger objects, in creation order
    records,            \* the log records emitted so far, in emission order
    now,                \* time.perf_counter(), in ticks
    ticks,              \* how many times the clock has advanced
    pc,                 \* each thread's position
    frame,              \* each thread's current call: arguments and locals
    hist,               \* history: one entry per call made, in call order
    attachLog           \* history: one entry per basicConfig executed

vars == <<logging_configured, gcl_available, root, wrappers, records, now, ticks,
          pc, frame, hist, attachLog>>

----------------------------------------------------------------------------
(* Bounds of the model *)

MaxCalls == 2          \* calls made in one behaviour of the whole program
MaxConfigCalls == 3    \* ... of the configuration calls
MaxLevelCalls == 4     \* ... of one wrapper's leveled methods
MaxBeaconCalls == 5    \* ... of one wrapper's beacons, one thread
MaxSharedCalls == 4    \* ... of one wrapper's beacons, two threads
MaxWrappers == 2       \* wrappers created in one behaviour
MaxTicks == 2          \* advances of the clock in one behaviour
MaxWrapperCalls == 5   \* calls in a behaviour of several wrappers
MaxKeyCalls == 4       \* ... of one wrapper's beacons of several keys, two threads

Threads == {"t1", "t2"}
SeqThreads == {"t1"}

None == "<None>"    \* Python's None, where a string is expected
Keys == {"op1", "op2"}
Messages == {"M1", "M2"}
BeaconMessages == {"M0"}
StartMessages == {"M1"}
EndMessages == {"M2"}
SharedKeys == {"op1"}   \* the key the threads of one wrapper share
PrefixArgs == {None, "", "OLD", "NEW"}
LoggerNames == {"app", "lib"}

\* Clock resolution of the model, and the amounts by which the clock advances.
TicksPerSecond == 2 ^ 8
TickSteps == {160}

----------------------------------------------------------------------------
(* Pure functions *)

Falsy(x) == x = None \/ x = ""

\* The prefix is stored as given, without the fallback
PrefixAsGiven(prefix) == prefix

\* prefix or "no-prefix"
PrefixOrDefault(prefix) == IF Falsy(prefix) THEN "no-prefix" ELSE prefix

FormatMessageNoPrefix(prefix, message) == message

\* PrefixedLogger._format_message
FormatMessage(prefix, message) == "[" \o prefix \o "] " \o message

BlipMessage(key, message) == "(BEACON - [" \o key \o "] - BLIP) " \o message

StartMessage(key, message) == "(BEACON - [" \o key \o "] - START) " \o message

\* elapsed is the rendered elapsed time: a number with two decimals, or N/A
EndMessage(key, elapsed, message) ==
    "(BEACON - [" \o key \o "] - END (Elapsed time " \o elapsed \o " s)) " \o message

MissingStartWarning(key) ==
    "log_end called for key '" \o key \o "' without a corresponding log_start."

\* n / d rounded to the nearest integer, ties to even (n >= 0, d > 0)
RoundHalfEven(n, d) ==
    LET q == n \div d
        r == n % d
    IN  IF 2 * r < d THEN q
        ELSE IF 2 * r > d THEN q + 1
        ELSE IF q % 2 = 0 THEN q ELSE q + 1

\* f"{elapsed_time:.2f}" of an elapsed time of e ticks (e >= 0)
Fmt2(e) ==
    LET cs == RoundHalfEven(e * 100, TicksPerSecond)
    IN  ToString(cs \div 100) \o "." \o ToString((cs % 100) \div 10) \o ToString(cs % 10)

\* The numeric value of a logging level (the logging library's table)
LevelNo(level) ==
    CASE level = "DEBUG" -> 10
      [] level = "INFO" -> 20
      [] level = "WARNING" -> 30
      [] level = "ERROR" -> 40
      [] level = "CRITICAL" -> 50

\* The severity each wrapper method forwards at: logger.exception logs at ERROR
MethodLevel(method) ==
    CASE method = "debug" -> "DEBUG"
      [] method = "info" -> "INFO"
      [] method = "warning" -> "WARNING"
      [] method = "error" -> "ERROR"
      [] method = "critical" -> "CRITICAL"
      [] method = "exception" -> "ERROR"

LevelMethods == {"debug", "info", "warning", "error", "critical", "exception"}

\* No level filters anything
IsEnabledForAny(level) == LevelNo(level) >= 0

\* Logger.isEnabledFor: the named loggers have no level of their own, so the
\* effective level is the root logger's
IsEnabledFor(level) == LevelNo(level) >= LevelNo(root.level)

\* The default values of log_file_max_bytes and log_file_backup_count
DefaultMaxBytes == 100 * 1024 * 1024
DefaultBackupCount == 5

\* One try around both optional handlers: a failure of the file handler drops
\* the cloud handler with it
BuildHandlersTogether(a, cloudOk, fileOk) ==
    <<[kind |-> "stream"]>>
    \o (IF a.enable_gcloud_logging /\ gcl_available /\ cloudOk
           /\ (a.log_file_path # None => fileOk)
        THEN <<[kind |-> "cloud",
                name |-> IF Falsy(a.cloud_logger_name) THEN a.logger_name
                         ELSE a.cloud_logger_name]>>
        ELSE <<>>)
    \o (IF a.log_file_path # None /\ fileOk
        THEN <<[kind |-> "file", path |-> a.log_file_path,
                maxBytes |-> 100 * 1024 * 1024, backupCount |-> 5]>>
        ELSE <<>>)

\* The handlers list setup_logging builds from its arguments a; cloudOk and
\* fileOk tell whether constructing the cloud and the file handler succeeds.
BuildHandlers(a, cloudOk, fileOk) ==
    <<[kind |-> "stream"]>>
    \o (IF a.enable_gcloud_logging /\ gcl_available /\ cloudOk
        THEN <<[kind |-> "cloud",
                name |-> IF Falsy(a.cloud_logger_name) THEN a.logger_name
                         ELSE a.cloud_logger_name]>>
        ELSE <<>>)
    \o (IF a.log_file_path # None /\ fileOk
        THEN <<[kind |-> "file", path |-> a.log_file_path,
                maxBytes |-> DefaultMaxBytes, backupCount |-> DefaultBackupCount]>>
        ELSE <<>>)

\* The text of the record line 192 emits: the kinds of the handlers in the list
RECURSIVE HandlersText(_)
HandlersText(hs) ==
    IF hs = <<>> THEN "" ELSE " " \o Head(hs).kind \o HandlersText(Tail(hs))

InitializedMessage(hs) == "LLL Logging initialized [" \o HandlersText(hs) \o " ]"

----------------------------------------------------------------------------
(* State *)

NoneTime == 0 - 1   \* the None that _start_times.pop(key, None) returns

NoArgs == [logger_name |-> None, prefix |-> None, cloud_logger_name |-> None,
           enable_gcloud_logging |-> FALSE, log_file_path |-> None]

EmptyFrame == [call |-> 0, op |-> "none", args |-> NoArgs, w |-> 0, key |-> None,
               message |-> None, t |-> NoneTime, handlers |-> <<>>,
               queue |-> <<>>, text |-> None]

\* A history entry: the call, and what it observed (for stating properties)
HistEntry(t, op, a, w, key, message) ==
    [thread |-> t, op |-> op, args |-> a, w |-> w, key |-> key,
     message |-> message,
     prefix |-> IF w = 0 THEN None ELSE wrappers[w].prefix,  \* the prefix at the call
     before |-> IF w = 0 THEN <<>> ELSE wrappers[w].start_times, \* the mapping at the call
     start |-> NoneTime,    \* log_start: the instant stored
     overwrote |-> FALSE,   \* log_start: whether the key was present when stored
     popped |-> NoneTime,   \* log_end: the value popped
     clock |-> NoneTime,    \* log_end: the clock read to compute the elapsed time
     cloud |-> "none",      \* setup_logging: how constructing the cloud handler went
     file |-> "none",       \* setup_logging: how constructing the file handler went
     began |-> 0,           \* setup_logging: its place among the calls that found
                            \* the flag false and went on to configure (0: not one)
     done |-> FALSE]

InitWith(avail) ==
    /\ logging_configured = FALSE
    /\ gcl_available \in avail
    /\ root = [level |-> "WARNING", handlers |-> <<>>]
    /\ wrappers = <<>>
    /\ records = <<>>
    /\ now = 0
    /\ ticks = 0
    /\ pc = [t \in Threads |-> "idle"]
    /\ frame = [t \in Threads |-> EmptyFrame]
    /\ hist = <<>>
    /\ attachLog = <<>>

Init == InitWith(BOOLEAN)

\* The calls of get_prefixed_logger made so far
GplCalls == Cardinality({i \in 1..Len(hist) : hist[i].op = "get_prefixed_logger"})

CanCall(t) == pc[t] = "idle"

\* Entering a call: a new frame and a new history entry
Enter(t, op, a, w, key, message, next, fr) ==
    /\ hist' = Append(hist, HistEntry(t, op, a, w, key, message))
    /\ frame' = [frame EXCEPT ![t] =
                    [fr EXCEPT !.call = Len(hist) + 1, !.op = op, !.args = a,
                               !.w = w, !.key = key, !.message = message]]
    /\ pc' = [pc EXCEPT ![t] = next]

\* Returning to the caller
Return(t) ==
    /\ pc' = [pc EXCEPT ![t] = "idle"]
    /\ hist' = [hist EXCEPT ![frame[t].call].done = TRUE]

----------------------------------------------------------------------------
(* setup_logging and get_prefixed_logger *)

\* get_prefixed_logger(logger_name, prefix, ...): calls setup_logging first
CallGetPrefixedLogger(t, a) ==
    /\ CanCall(t)
    /\ GplCalls < MaxWrappers
    /\ Enter(t, "get_prefixed_logger", a, 0, None, None, "setup_check", EmptyFrame)
    /\ UNCHANGED <<logging_configured, gcl_available, root, wrappers, records, now, ticks, attachLog>>

\* setup_logging(logger_name, ...) called directly
CallSetupLogging(t, a) ==
    /\ CanCall(t)
    /\ Enter(t, "setup_logging", a, 0, None, None, "setup_check", EmptyFrame)
    /\ UNCHANGED <<logging_configured, gcl_available, root, wrappers, records, now, ticks, attachLog>>

\* setup_logging returns: to its caller, or into get_prefixed_logger
SetupReturn(t) ==
    IF frame[t].op = "get_prefixed_logger"
    THEN pc' = [pc EXCEPT ![t] = "construct"] /\ UNCHANGED hist
    ELSE Return(t)

\* SetupCheck without the early return: every call goes on to configure
SetupCheckAlways(t) ==
    /\ pc[t] = "setup_check"
    /\ pc' = [pc EXCEPT ![t] = "setup_build"]
    /\ UNCHANGED <<logging_configured, gcl_available, root, wrappers, records, now, ticks,
                   frame, hist, attachLog>>

\* The calls that have found the flag false
Began == {c \in 1..Len(hist) : hist[c].began > 0}

\* if _logging_configured: return logging.getLogger(logger_name)
SetupCheck(t) ==
    /\ pc[t] = "setup_check"
    /\ IF logging_configured
       THEN SetupReturn(t)
       ELSE /\ pc' = [pc EXCEPT ![t] = "setup_build"]
            /\ hist' = [hist EXCEPT ![frame[t].call].began = Cardinality(Began) + 1]
    /\ UNCHANGED <<logging_configured, gcl_available, root, wrappers, records, now, ticks,
                   frame, attachLog>>

\* How the construction of an optional handler went
Outcome(attempted, ok) ==
    IF ~attempted THEN "skipped" ELSE IF ok THEN "ok" ELSE "failed"

\* The handlers list is built; each optional handler's construction may fail
SetupBuild(t) ==
    /\ pc[t] = "setup_build"
    /\ LET cloudTried == frame[t].args.enable_gcloud_logging /\ gcl_available
           fileTried == frame[t].args.log_file_path # None
       IN  \E cloudOk \in IF cloudTried THEN BOOLEAN ELSE {FALSE},
              fileOk \in IF fileTried THEN BOOLEAN ELSE {FALSE} :
              /\ frame' = [frame EXCEPT ![t].handlers =
                              BuildHandlers(frame[t].args, cloudOk, fileOk)]
              /\ hist' = [hist EXCEPT ![frame[t].call].cloud = Outcome(cloudTried, cloudOk),
                                      ![frame[t].call].file = Outcome(fileTried, fileOk)]
    /\ pc' = [pc EXCEPT ![t] = "setup_basic_config"]
    /\ UNCHANGED <<logging_configured, gcl_available, root, wrappers, records, now, ticks,
                   attachLog>>

\* logging.basicConfig(..., force=True) takes the lock of the logging module
\* and removes the handlers the root logger has
SetupRemoveHandlers(t) ==
    /\ pc[t] = "setup_basic_config"
    /\ \A u \in Threads : pc[u] # "setup_attach"
    /\ root' = [root EXCEPT !.handlers = <<>>]
    /\ pc' = [pc EXCEPT ![t] = "setup_attach"]
    /\ UNCHANGED <<logging_configured, gcl_available, wrappers, records, now, ticks, frame,
                   hist, attachLog>>

\* logging.basicConfig(level=INFO, handlers=handlers, force=True) attaches the
\* handlers, sets the level and releases the lock; then the "LLL Logging
\* initialized" record on the root logger
SetupBasicConfig(t) ==
    /\ pc[t] = "setup_attach"
    /\ root' = [level |-> "INFO", handlers |-> frame[t].handlers]
    /\ records' = Append(records,
                    [call |-> frame[t].call, logger |-> "root", level |-> "INFO",
                     text |-> InitializedMessage(frame[t].handlers)])
    /\ attachLog' = Append(attachLog,
                    [call |-> frame[t].call, handlers |-> frame[t].handlers])
    /\ pc' = [pc EXCEPT ![t] = "setup_set_flag"]
    /\ UNCHANGED <<logging_configured, gcl_available, wrappers, now, ticks, frame, hist>>

\* _logging_configured = True; return logging.getLogger(logger_name)
SetupSetFlag(t) ==
    /\ pc[t] = "setup_set_flag"
    /\ logging_configured' = TRUE
    /\ SetupReturn(t)
    /\ UNCHANGED <<gcl_available, root, wrappers, records, now, ticks, frame, attachLog>>

\* A wrapper per logger name: a later call for a name gets the wrapper made
\* for it before
ConstructCached(t) ==
    /\ pc[t] = "construct"
    /\ LET same == {w \in 1..Len(wrappers) : wrappers[w].name = frame[t].args.logger_name}
       IN  IF same = {}
           THEN /\ wrappers' = Append(wrappers,
                                  [name |-> frame[t].args.logger_name,
                                   prefix |-> PrefixOrDefault(frame[t].args.prefix),
                                   start_times |-> <<>>])
                /\ hist' = [hist EXCEPT ![frame[t].call].done = TRUE,
                                        ![frame[t].call].w = Len(wrappers) + 1]
           ELSE /\ wrappers' = wrappers
                /\ hist' = [hist EXCEPT ![frame[t].call].done = TRUE,
                                        ![frame[t].call].w = CHOOSE w \in same : TRUE]
    /\ pc' = [pc EXCEPT ![t] = "idle"]
    /\ UNCHANGED <<logging_configured, gcl_available, root, records, now, ticks, frame, attachLog>>

\* return PrefixedLogger(logger_name, prefix)
Construct(t) ==
    /\ pc[t] = "construct"
    /\ wrappers' = Append(wrappers,
                     [name |-> frame[t].args.logger_name,
                      prefix |-> PrefixOrDefault(frame[t].args.prefix),
                      start_times |-> <<>>])
    /\ pc' = [pc EXCEPT ![t] = "idle"]
    /\ hist' = [hist EXCEPT ![frame[t].call].done = TRUE,
                            ![frame[t].call].w = Len(wrappers) + 1]
    /\ UNCHANGED <<logging_configured, gcl_available, root, records, now, ticks, frame, attachLog>>

----------------------------------------------------------------------------
(* PrefixedLogger *)

Wrappers == 1..Len(wrappers)

\* One leveled call of the wrapper, pending in a frame's queue
LogCall(method, message) == [method |-> method, message |-> message]

\* self._prefix = prefix or "no-prefix"
UpdatePrefix(t, w, prefix) ==
    /\ CanCall(t)
    /\ wrappers' = [wrappers EXCEPT ![w].prefix = PrefixOrDefault(prefix)]
    /\ hist' = Append(hist, [HistEntry(t, "update_prefix", [NoArgs EXCEPT !.prefix = prefix],
                                       w, None, None) EXCEPT !.done = TRUE])
    /\ UNCHANGED <<logging_configured, gcl_available, root, records, now, ticks, pc, frame,
                   attachLog>>

\* info / debug / warning / error / critical / exception (message)
CallLevel(t, w, method, message) ==
    /\ CanCall(t)
    /\ Enter(t, method, NoArgs, w, None, message, "format",
             [EmptyFrame EXCEPT !.queue = <<LogCall(method, message)>>])
    /\ UNCHANGED <<logging_configured, gcl_available, root, wrappers, records, now, ticks, attachLog>>

\* self._format_message(message), for the call at the head of the queue
Format(t) ==
    /\ pc[t] = "format"
    /\ frame' = [frame EXCEPT ![t].text =
                    FormatMessage(wrappers[frame[t].w].prefix, Head(frame[t].queue).message)]
    /\ pc' = [pc EXCEPT ![t] = "emit"]
    /\ UNCHANGED <<logging_configured, gcl_available, root, wrappers, records, now, ticks,
                   hist, attachLog>>

\* self.logger.<method>(text): a record, if the logger is enabled for the level
Emit(t) ==
    /\ pc[t] = "emit"
    /\ LET level == MethodLevel(Head(frame[t].queue).method)
       IN  records' = IF IsEnabledFor(level)
                      THEN Append(records,
                             [call |-> frame[t].call, logger |-> wrappers[frame[t].w].name,
                              level |-> level, text |-> frame[t].text])
                      ELSE records
    /\ frame' = [frame EXCEPT ![t].queue = Tail(frame[t].queue)]
    /\ IF Tail(frame[t].queue) = <<>>
       THEN Return(t)
       ELSE pc' = [pc EXCEPT ![t] = "format"] /\ UNCHANGED hist
    /\ UNCHANGED <<logging_configured, gcl_available, root, wrappers, now, ticks, attachLog>>

\* log_beacon that ends the timed operation of its key
LogBeaconClosing(t, w, key, message) ==
    /\ CanCall(t)
    /\ Enter(t, "log_beacon", NoArgs, w, key, message, "format",
             [EmptyFrame EXCEPT !.queue = <<LogCall("info", BlipMessage(key, message))>>])
    /\ wrappers' = [wrappers EXCEPT ![w].start_times = [k \in DOMAIN @ \ {key} |-> @[k]]]
    /\ UNCHANGED <<logging_configured, gcl_available, root, records, now, ticks, attachLog>>

\* What log_beacon logs
BeaconCalls(key, message) == <<LogCall("info", BlipMessage(key, message))>>

\* log_beacon(key, message) (and its alias log_b)
LogBeacon(t, w, key, message) ==
    /\ CanCall(t)
    /\ Enter(t, "log_beacon", NoArgs, w, key, message, "format",
             [EmptyFrame EXCEPT !.queue = BeaconCalls(key, message)])
    /\ UNCHANGED <<logging_configured, gcl_available, root, wrappers, records, now, ticks, attachLog>>

\* log_start(key, message): time.perf_counter() is read
LogStart(t, w, key, message) ==
    /\ CanCall(t)
    /\ Enter(t, "log_start", NoArgs, w, key, message, "start_store",
             [EmptyFrame EXCEPT !.t = now])
    /\ UNCHANGED <<logging_configured, gcl_available, root, wrappers, records, now, ticks, attachLog>>

\* What log_start logs
StartCalls(key, message) == <<LogCall("info", StartMessage(key, message))>>

\* d.setdefault(key, value): an entry already there is kept
PutIfAbsent(d, key, value) ==
    [k \in DOMAIN d \cup {key} |-> IF k \in DOMAIN d THEN d[k] ELSE value]

\* d[key] = value
Put(d, key, value) == [k \in DOMAIN d \cup {key} |-> IF k = key THEN value ELSE d[k]]

\* The mapping as a class attribute: one mapping for all the wrappers
StartStoreShared(t) ==
    /\ pc[t] = "start_store"
    /\ wrappers' = [w \in 1..Len(wrappers) |->
                        [wrappers[w] EXCEPT !.start_times = Put(@, frame[t].key, frame[t].t)]]
    /\ frame' = [frame EXCEPT ![t].queue = StartCalls(frame[t].key, frame[t].message)]
    /\ hist' = [hist EXCEPT ![frame[t].call].start = frame[t].t,
                            ![frame[t].call].overwrote =
                                frame[t].key \in DOMAIN wrappers[frame[t].w].start_times]
    /\ pc' = [pc EXCEPT ![t] = "format"]
    /\ UNCHANGED <<logging_configured, gcl_available, root, records, now, ticks, attachLog>>

\* self._start_times[key] = <the instant read>; then self.info(START beacon)
StartStore(t) ==
    /\ pc[t] = "start_store"
    /\ wrappers' = [wrappers EXCEPT ![frame[t].w].start_times =
                        Put(@, frame[t].key, frame[t].t)]
    /\ frame' = [frame EXCEPT ![t].queue = StartCalls(frame[t].key, frame[t].message)]
    /\ hist' = [hist EXCEPT ![frame[t].call].start = frame[t].t,
                            ![frame[t].call].overwrote =
                                frame[t].key \in DOMAIN wrappers[frame[t].w].start_times]
    /\ pc' = [pc EXCEPT ![t] = "format"]
    /\ UNCHANGED <<logging_configured, gcl_available, root, records, now, ticks, attachLog>>

\* d.pop(key, None): the value returned, and the mapping left
PopValue(d, key) == IF key \in DOMAIN d THEN d[key] ELSE NoneTime

\* d.get(key) in place of d.pop(key): the entry stays
PopRestKeep(d, key) == d

\* d.clear() in place of d.pop(key): every entry goes
PopRestAll(d, key) == <<>>

PopRest(d, key) == [k \in DOMAIN d \ {key} |-> d[k]]

\* The missing start goes unreported: no warning
EndMissingCallsSilent(key, message) ==
    <<LogCall("info", EndMessage(key, "N/A", message))>>

\* What log_end logs when start_time is None
EndMissingCalls(key, message) ==
    <<LogCall("warning", MissingStartWarning(key)),
      LogCall("info", EndMessage(key, "N/A", message))>>

\* The start instant is not subtracted from the clock reading
EndFoundCallsClock(key, start_time, clock, message) ==
    <<LogCall("info", EndMessage(key, Fmt2(clock), message))>>

\* What log_end logs when it found start_time, the clock reading clock
EndFoundCalls(key, start_time, clock, message) ==
    <<LogCall("info", EndMessage(key, Fmt2(clock - start_time), message))>>

\* if start_time is None
IsNone(start_time) == start_time = NoneTime

\* log_end(key, message): start_time = self._start_times.pop(key, None); on None
\* the warning and the N/A beacon are what is left to log
LogEnd(t, w, key, message) ==
    /\ CanCall(t)
    /\ LET start_time == PopValue(wrappers[w].start_times, key)
           entry == [HistEntry(t, "log_end", NoArgs, w, key, message)
                        EXCEPT !.popped = start_time]
           fr == [EmptyFrame EXCEPT !.call = Len(hist) + 1, !.op = "log_end", !.w = w,
                                    !.key = key, !.message = message]
       IN  /\ wrappers' = [wrappers EXCEPT ![w].start_times = PopRest(@, key)]
           /\ hist' = Append(hist, entry)
           /\ IF IsNone(start_time)
              THEN /\ frame' = [frame EXCEPT ![t] =
                                  [fr EXCEPT !.queue = EndMissingCalls(key, message)]]
                   /\ pc' = [pc EXCEPT ![t] = "format"]
              ELSE /\ frame' = [frame EXCEPT ![t] = [fr EXCEPT !.t = start_time]]
                   /\ pc' = [pc EXCEPT ![t] = "end_clock"]
    /\ UNCHANGED <<logging_configured, gcl_available, root, records, now, ticks, attachLog>>

\* elapsed_time = time.perf_counter() - start_time; then self.info(END beacon)
EndClock(t) ==
    /\ pc[t] = "end_clock"
    /\ frame' = [frame EXCEPT ![t].queue =
                    EndFoundCalls(frame[t].key, frame[t].t, now, frame[t].message)]
    /\ hist' = [hist EXCEPT ![frame[t].call].clock = now]
    /\ pc' = [pc EXCEPT ![t] = "format"]
    /\ UNCHANGED <<logging_configured, gcl_available, root, wrappers, records, now, ticks, attachLog>>

\* The monotonic clock advances
Tick ==
    /\ ticks < MaxTicks
    /\ ticks' = ticks + 1
    /\ \E d \in TickSteps : now' = now + d
    /\ UNCHANGED <<logging_configured, gcl_available, root, wrappers, records,
                   pc, frame, hist, attachLog>>

----------------------------------------------------------------------------
(* Specifications *)

\* Arguments of the configuration calls
ConfigArgs ==
    { [logger_name |-> "app", prefix |-> None, cloud_logger_name |-> None,
       enable_gcloud_logging |-> FALSE, log_file_path |-> "logs.txt"],
      [logger_name |-> "app", prefix |-> None, cloud_logger_name |-> "cl",
       enable_gcloud_logging |-> TRUE, log_file_path |-> None],
      [logger_name |-> "lib", prefix |-> None, cloud_logger_name |-> None,
       enable_gcloud_logging |-> TRUE, log_file_path |-> "logs.txt"] }

\* get_prefixed_logger(logger_name, prefix): the other arguments at their defaults
DefaultArgs(names, prefixes) ==
    [logger_name : names, prefix : prefixes, cloud_logger_name : {None},
     enable_gcloud_logging : {FALSE}, log_file_path : {"logs.txt"}]

\* The steps inside setup_logging and get_prefixed_logger
SetupStep(t) ==
    \/ SetupCheck(t)
    \/ SetupBuild(t)
    \/ SetupRemoveHandlers(t)
    \/ SetupBasicConfig(t)
    \/ SetupSetFlag(t)
    \/ Construct(t)

\* The steps inside the wrapper's logging methods
LogStep(t) ==
    \/ Format(t)
    \/ Emit(t)

\* Configuration only: at most cap calls with any arguments, from the threads ts
NextConfig(ts, cap) ==
    \E t \in ts :
        \/ /\ Len(hist) < cap
           /\ \/ \E a \in ConfigArgs : CallGetPrefixedLogger(t, a)
              \/ \E a \in ConfigArgs : CallSetupLogging(t, a)
        \/ SetupStep(t)

\* One wrapper, its prefix and the leveled methods
NextLevels(ts, cap) ==
    \E t \in ts :
        \/ /\ Len(hist) < cap
           /\ \/ /\ GplCalls = 0
                 /\ \E a \in DefaultArgs({"app"}, PrefixArgs) : CallGetPrefixedLogger(t, a)
              \/ \E w \in Wrappers, p \in PrefixArgs : UpdatePrefix(t, w, p)
              \/ \E w \in Wrappers, m \in LevelMethods, msg \in Messages :
                    CallLevel(t, w, m, msg)
              \/ \E w \in Wrappers, msg \in StartMessages : LogStart(t, w, "op1", msg)
        \/ SetupStep(t)
        \/ StartStore(t)
        \/ LogStep(t)

\* One wrapper and its beacons
NextBeacon(ts, cap) ==
    \/ \E t \in ts :
        \/ /\ Len(hist) < cap
           /\ \/ /\ GplCalls = 0
                 /\ \E a \in DefaultArgs({"app"}, {"OLD"}) : CallGetPrefixedLogger(t, a)
              \/ \E w \in Wrappers : UpdatePrefix(t, w, "NEW")
              \/ \E w \in Wrappers, k \in Keys, msg \in BeaconMessages : LogBeacon(t, w, k, msg)
              \/ \E w \in Wrappers, k \in Keys, msg \in StartMessages : LogStart(t, w, k, msg)
              \/ \E w \in Wrappers, k \in Keys, msg \in EndMessages : LogEnd(t, w, k, msg)
        \/ SetupStep(t)
        \/ StartStore(t)
        \/ EndClock(t)
        \/ LogStep(t)
    \/ Tick

\* One wrapper, and threads that start and end timed operations on it
NextShared(ts, cap) ==
    \/ \E t \in ts :
        \/ /\ Len(hist) < cap
           /\ \/ /\ GplCalls = 0
                 /\ \E a \in DefaultArgs({"app"}, {"OLD"}) : CallGetPrefixedLogger(t, a)
              \/ \E w \in Wrappers, k \in SharedKeys, msg \in StartMessages : LogStart(t, w, k, msg)
              \/ \E w \in Wrappers, k \in SharedKeys, msg \in EndMessages : LogEnd(t, w, k, msg)
        \/ SetupStep(t)
        \/ StartStore(t)
        \/ EndClock(t)
        \/ LogStep(t)
    \/ Tick

\* Several wrappers, also of one logger name, their prefixes and one timed key
NextWrappers(ts, cap) ==
    \E t \in ts :
        \/ /\ Len(hist) < cap
           /\ \/ \E a \in DefaultArgs(LoggerNames, {None, "OLD"}) : CallGetPrefixedLogger(t, a)
              \/ \E w \in Wrappers : UpdatePrefix(t, w, "NEW")
              \/ \E w \in Wrappers, k \in SharedKeys, msg \in StartMessages : LogStart(t, w, k, msg)
              \/ \E w \in Wrappers, k \in SharedKeys, msg \in EndMessages : LogEnd(t, w, k, msg)
        \/ SetupStep(t)
        \/ StartStore(t)
        \/ EndClock(t)
        \/ LogStep(t)

\* The key whose operations a thread times
ThreadKey(t) == IF t = "t1" THEN "op1" ELSE "op2"

\* One wrapper, and threads that start and end timed operations, each of its key
NextKeys(ts, cap) ==
    \/ \E t \in ts :
        \/ /\ Len(hist) < cap
           /\ \/ /\ GplCalls = 0
                 /\ \E a \in DefaultArgs({"app"}, {"OLD"}) : CallGetPrefixedLogger(t, a)
              \/ \E w \in Wrappers, msg \in StartMessages : LogStart(t, w, ThreadKey(t), msg)
              \/ \E w \in Wrappers, msg \in EndMessages : LogEnd(t, w, ThreadKey(t), msg)
        \/ SetupStep(t)
        \/ StartStore(t)
        \/ EndClock(t)
        \/ LogStep(t)
    \/ Tick

\* Everything
Next ==
    \/ \E t \in Threads :
        \/ /\ Len(hist) < MaxCalls
           /\ \/ \E a \in ConfigArgs \cup DefaultArgs(LoggerNames, PrefixArgs) :
                    CallGetPrefixedLogger(t, a)
              \/ \E a \in ConfigArgs : CallSetupLogging(t, a)
              \/ \E w \in Wrappers, p \in PrefixArgs : UpdatePrefix(t, w, p)
              \/ \E w \in Wrappers, m \in LevelMethods, msg \in Messages :
                    CallLevel(t, w, m, msg)
              \/ \E w \in Wrappers, k \in Keys, msg \in Messages : LogBeacon(t, w, k, msg)
              \/ \E w \in Wrappers, k \in Keys, msg \in Messages : LogStart(t, w, k, msg)
              \/ \E w \in Wrappers, k \in Keys, msg \in Messages : LogEnd(t, w, k, msg)
        \/ SetupStep(t)
        \/ StartStore(t)
        \/ EndClock(t)
        \/ LogStep(t)
    \/ Tick

Spec == Init /\ [][Next]_vars

\* Threads racing to configure
SpecConfig == Init /\ [][NextConfig(Threads, MaxConfigCalls)]_vars

\* One thread configuring again and again
SpecConfigSeq == Init /\ [][NextConfig(SeqThreads, MaxConfigCalls)]_vars

\* One thread using the leveled methods of one wrapper
SpecLevels == InitWith({FALSE}) /\ [][NextLevels(SeqThreads, MaxLevelCalls)]_vars

\* One thread using the beacons of one wrapper
SpecBeacon == InitWith({FALSE}) /\ [][NextBeacon(SeqThreads, MaxBeaconCalls)]_vars

\* Two threads sharing one wrapper and its beacons
SpecBeaconShared == InitWith({FALSE}) /\ [][NextShared(Threads, MaxSharedCalls)]_vars

\* One thread making wrappers and using them in turn
SpecWrappers == InitWith({FALSE}) /\ [][NextWrappers(SeqThreads, MaxWrapperCalls)]_vars

\* Two threads sharing one wrapper, each timing the operations of its key
SpecKeys == InitWith({FALSE}) /\ [][NextKeys(Threads, MaxKeyCalls)]_vars

----------------------------------------------------------------------------
(* Properties *)

\* The records a call emitted, in emission order, as <<level, text>> pairs
RecordsOf(c) ==
    LET rs == SelectSeq(records, LAMBDA r : r.call = c)
    IN  [i \in 1..Len(rs) |-> <<rs[i].level, rs[i].text>>]

Calls == 1..Len(hist)

AllIdle == \A t \in Threads : pc[t] = "idle"

\* C1: when threads call setup_logging or get_prefixed_logger concurrently while
\* the flag is false, basicConfig is executed by exactly one of them: no two
\* calls both pass the flag check and both attach handlers.
C1_AttachedOnce == Len(attachLog) <= 1

\* The entry of key in wrapper w's mapping: 1 if present
InMap(w, key) == IF key \in DOMAIN wrappers[w].start_times THEN 1 ELSE 0

\* The log_start calls on (w, key) that have stored their instant, those of
\* them that stored over an entry, and the log_end calls that popped an instant
Stored(w, key) ==
    {c \in Calls : hist[c].op = "log_start" /\ hist[c].w = w /\ hist[c].key = key
                   /\ hist[c].start # NoneTime}
Overwrote(w, key) == {c \in Stored(w, key) : hist[c].overwrote}
Consumed(w, key) ==
    {c \in Calls : hist[c].op = "log_end" /\ hist[c].w = w /\ hist[c].key = key
                   /\ hist[c].popped # NoneTime}

\* What a returned log_end emitted, by what it popped
EndRecordsMatch(c) ==
    LET h == hist[c]
        p == "[" \o h.prefix \o "] "
    IN  IF h.popped = NoneTime
        THEN RecordsOf(c) =
               <<  <<"WARNING", p \o "log_end called for key '" \o h.key
                                  \o "' without a corresponding log_start.">>,
                   <<"INFO", p \o "(BEACON - [" \o h.key
                               \o "] - END (Elapsed time N/A s)) " \o h.message>> >>
        ELSE /\ h.clock >= h.popped
             /\ RecordsOf(c) =
                  << <<"INFO", p \o "(BEACON - [" \o h.key \o "] - END (Elapsed time "
                               \o Fmt2(h.clock - h.popped) \o " s)) " \o h.message>> >>

\* C2: on a wrapper shared by threads using one key, the store of log_start
\* and the lookup-and-remove of log_end are atomic: every stored start instant
\* is overwritten, consumed by exactly one log_end, or still in the mapping
\* (so of two log_end racing for one open start, one reports a number and the
\* other N/A), and a log_end that finds the key leaves it absent.
C2_StartConsumedOnce ==
    /\ [](\A w \in Wrappers, k \in Keys :
            /\ Cardinality(Consumed(w, k)) + InMap(w, k)
                 = Cardinality(Stored(w, k)) - Cardinality(Overwrote(w, k))
            /\ \A c \in Calls : hist[c].op = "log_end" /\ hist[c].done => EndRecordsMatch(c))
    /\ [][\A w \in Wrappers, k \in Keys :
            (/\ Len(hist') = Len(hist) + 1
             /\ hist'[Len(hist')].op = "log_end"
             /\ hist'[Len(hist')].w = w
             /\ hist'[Len(hist')].key = k
             /\ k \in DOMAIN wrappers[w].start_times)
            => /\ k \notin DOMAIN wrappers'[w].start_times
               /\ hist'[Len(hist')].popped = wrappers[w].start_times[k]]_vars

\* Two threads' log_end calls on the same key overlapped (the later call
\* emitted before the earlier one did): one consumed the start, the other
\* took the N/A path
C2_Witness ==
    \E i, j \in Calls :
        /\ i < j
        /\ hist[i].op = "log_end" /\ hist[j].op = "log_end"
        /\ hist[i].w = hist[j].w /\ hist[i].key = hist[j].key
        /\ hist[i].thread # hist[j].thread
        /\ hist[i].done /\ hist[j].done
        /\ hist[i].popped # NoneTime /\ hist[j].popped = NoneTime
        /\ \E m, n \in 1..Len(records) :
              m < n /\ records[m].call = j /\ records[n].call = i

\* C3: in a sequential series of configuration calls with differing arguments,
\* once the flag is true the attached handlers are the ones built from the
\* first call's arguments (by the first call, the only one to attach), and
\* every later step leaves the handlers attached and the flag true.
C3_FirstCallWins ==
    /\ [](logging_configured =>
            /\ Len(attachLog) = 1
            /\ attachLog[1].call = 1
            /\ root.handlers = attachLog[1].handlers
            /\ \E cloudOk, fileOk \in BOOLEAN :
                  root.handlers = BuildHandlers(hist[1].args, cloudOk, fileOk))
    /\ [][logging_configured => logging_configured' /\ root' = root]_vars

\* Three calls have returned, the later ones with arguments that would build
\* other handlers than the first call's
C3_Witness ==
    /\ Len(hist) >= 3
    /\ \A c \in 1..3 : hist[c].done
    /\ hist[1].args.enable_gcloud_logging # hist[2].args.enable_gcloud_logging
    /\ hist[1].args.log_file_path # hist[3].args.log_file_path
    /\ Len(root.handlers) >= 2

\* The calls that start or end the timed operation key of wrapper w, and the
\* calls of any kind that name the key
TimedCalls(w, key) ==
    {c \in Calls : hist[c].op \in {"log_start", "log_end"} /\ hist[c].w = w
                   /\ hist[c].key = key}
KeyCalls(w, key) == {c \in Calls : hist[c].w = w /\ hist[c].key = key}

\* i and j are members of S with no member of S between them
Consecutive(S, i, j) ==
    i \in S /\ j \in S /\ i < j /\ ~ \E m \in S : i < m /\ m < j

\* Whether S has a member before c, and the last such member
HasPrev(S, c) == \E m \in S : m < c
Prev(S, c) == CHOOSE m \in S : m < c /\ \A n \in S : n < c => n <= m

\* The records of the calls in S, in emission order, as <<level, text>> pairs
RecordsOfCalls(S) ==
    LET rs == SelectSeq(records, LAMBDA r : r.call \in S)
    IN  [i \in 1..Len(rs) |-> <<rs[i].level, rs[i].text>>]

\* The body of the END beacon reporting the elapsed time between two instants
EndBody(key, start, clock, message) ==
    "(BEACON - [" \o key \o "] - END (Elapsed time " \o Fmt2(clock - start) \o " s)) "
    \o message

\* C4: log_end(K, M) with no open start for K emits a warning record naming K
\* and then an info record with the END beacon, elapsed N/A, and M; it
\* completes on that path and leaves the mapping as it was.
C4_EndWithoutStart ==
    \A c \in Calls :
        LET h == hist[c]
            p == "[" \o h.prefix \o "] "
        IN  (h.op = "log_end" /\ h.key \notin DOMAIN h.before) =>
              /\ h.popped = NoneTime
              /\ h.done =>
                   RecordsOf(c) =
                     << <<"WARNING", p \o "log_end called for key '" \o h.key
                                       \o "' without a corresponding log_start.">>,
                        <<"INFO", p \o "(BEACON - [" \o h.key
                                    \o "] - END (Elapsed time N/A s)) " \o h.message>> >>
              /\ c = Len(hist) => wrappers[h.w].start_times = h.before

\* A log_end without open start returned, while another key was open
C4_Witness ==
    \E c \in Calls :
        /\ hist[c].op = "log_end" /\ hist[c].done
        /\ hist[c].before # <<>>
        /\ hist[c].key \notin DOMAIN hist[c].before
        /\ Len(RecordsOf(c)) = 2

\* C5: log_start(K, M1) then log_end(K, M2), nothing naming K in between, emit
\* the START record and then the END record with the elapsed time, rendered
\* with two decimals, between the clock log_start stored and the clock log_end
\* read, which is not negative; then K is no longer in the mapping.
C5_StartThenEnd ==
    \A j \in Calls :
        LET k == hist[j].key
            w == hist[j].w
            S == KeyCalls(w, k)
        IN  (hist[j].op = "log_end" /\ hist[j].done /\ HasPrev(S, j)) =>
            LET i == Prev(S, j)
            IN  hist[i].op = "log_start" =>
                  /\ hist[i].start # NoneTime
                  /\ hist[j].popped = hist[i].start
                  /\ hist[j].clock >= hist[i].start
                  /\ RecordsOfCalls({i, j}) =
                       << <<"INFO", "[" \o hist[i].prefix \o "] (BEACON - [" \o k
                                    \o "] - START) " \o hist[i].message>>,
                          <<"INFO", "[" \o hist[j].prefix \o "] "
                                    \o EndBody(k, hist[i].start, hist[j].clock,
                                               hist[j].message)>> >>
                  /\ j = Len(hist) => k \notin DOMAIN wrappers[w].start_times

\* A timed operation started after the clock had advanced, and ended later still
C5_Witness ==
    \E w \in Wrappers, k \in Keys : \E i, j \in Calls :
        /\ Consecutive(KeyCalls(w, k), i, j)
        /\ hist[i].op = "log_start" /\ hist[j].op = "log_end" /\ hist[j].done
        /\ hist[i].start > 0
        /\ hist[j].clock > hist[i].start

\* Some log_start of (w, key) has no log_end of (w, key) after it
Open(w, key) ==
    \E i \in TimedCalls(w, key) :
        /\ hist[i].op = "log_start"
        /\ \A j \in TimedCalls(w, key) : j > i => hist[j].op # "log_end"

\* C6: between the calls of a wrapper's user, a key is in the start-time
\* mapping iff some log_start of it has no log_end of it after it; and an
\* entry appears only in log_start's store and disappears only in log_end's pop.
C6_OpenIffPresent ==
    /\ [](AllIdle => \A w \in Wrappers, k \in Keys :
                        k \in DOMAIN wrappers[w].start_times <=> Open(w, k))
    /\ [][\A w \in Wrappers, k \in Keys :
            /\ (k \notin DOMAIN wrappers[w].start_times
                    /\ k \in DOMAIN wrappers'[w].start_times)
               => \E t \in Threads :
                     /\ pc[t] = "start_store" /\ pc'[t] # "start_store"
                     /\ frame[t].w = w /\ frame[t].key = k
            /\ (k \in DOMAIN wrappers[w].start_times
                    /\ k \notin DOMAIN wrappers'[w].start_times)
               => /\ Len(hist') = Len(hist) + 1
                  /\ hist'[Len(hist')].op = "log_end"
                  /\ hist'[Len(hist')].w = w /\ hist'[Len(hist')].key = k]_vars

\* Between calls, one key is open and another was opened and closed again
C6_Witness ==
    /\ AllIdle
    /\ \E w \in Wrappers, k1, k2 \in Keys :
          /\ k1 \in DOMAIN wrappers[w].start_times
          /\ k2 \notin DOMAIN wrappers[w].start_times
          /\ \E i, j \in TimedCalls(w, k2) :
                i < j /\ hist[i].op = "log_start" /\ hist[j].op = "log_end"

\* C7: log_start on an open key overwrites the stored instant: after
\* log_start(K) at t1, log_start(K) at t2 and log_end(K) at t3 the elapsed time
\* reported is t3 - t2 and K is not in the mapping; a further log_end(K)
\* takes the N/A path.
C7_LastWriteWins ==
    \A l \in Calls :
        LET k == hist[l].key
            w == hist[l].w
            S == TimedCalls(w, k)
            \* the two calls before l are log_start calls
            AfterTwoStarts(c) ==
                /\ HasPrev(S, c) /\ hist[Prev(S, c)].op = "log_start"
                /\ HasPrev(S, Prev(S, c)) /\ hist[Prev(S, Prev(S, c))].op = "log_start"
        IN  (hist[l].op = "log_end" /\ HasPrev(S, l)) =>
              /\ (hist[l].done /\ AfterTwoStarts(l)) =>
                    LET j == Prev(S, l)
                    IN  /\ hist[l].popped = hist[j].start
                        /\ RecordsOf(l) =
                             << <<"INFO", "[" \o hist[l].prefix \o "] "
                                  \o EndBody(k, hist[j].start, hist[l].clock,
                                             hist[l].message)>> >>
                        /\ l = Len(hist) => k \notin DOMAIN wrappers[w].start_times
              /\ (hist[Prev(S, l)].op = "log_end" /\ AfterTwoStarts(Prev(S, l))) =>
                    /\ hist[l].popped = NoneTime
                    /\ hist[l].done =>
                         /\ Len(RecordsOf(l)) = 2
                         /\ RecordsOf(l)[1][1] = "WARNING"
                         /\ RecordsOf(l)[2] =
                              <<"INFO", "[" \o hist[l].prefix \o "] (BEACON - [" \o k
                                 \o "] - END (Elapsed time N/A s)) " \o hist[l].message>>

\* Two starts of a key at different instants, an end later still, and one
\* more end, all returned
C7_Witness ==
    \E m \in Calls :
        LET S == TimedCalls(hist[m].w, hist[m].key)
        IN  /\ hist[m].op = "log_end" /\ hist[m].done
            /\ HasPrev(S, m) /\ HasPrev(S, Prev(S, m)) /\ HasPrev(S, Prev(S, Prev(S, m)))
            /\ LET l == Prev(S, m)
                   j == Prev(S, l)
                   i == Prev(S, j)
               IN  /\ hist[i].op = "log_start" /\ hist[j].op = "log_start"
                   /\ hist[l].op = "log_end"
                   /\ hist[i].start < hist[j].start
                   /\ hist[j].start < hist[l].clock

BodyOf(h) ==
    IF h.op = "log_start" THEN "(BEACON - [" \o h.key \o "] - START) " \o h.message
    ELSE h.message

\* The step is a call of update_prefix
UpdatePrefixStep ==
    Len(hist') = Len(hist) + 1 /\ hist'[Len(hist')].op = "update_prefix"

\* C8: update_prefix changes only future emissions: every record of a wrapper
\* carries the prefix that was current when its logging call was made, the
\* records are in call order, and update_prefix emits nothing and leaves the
\* records emitted so far and the beacon mapping as they were.
C8_PrefixAtCall ==
    /\ [](/\ \A n \in 1..Len(records) :
               records[n].logger # "root" =>
                  LET h == hist[records[n].call]
                  IN  /\ h.op # "update_prefix"
                      /\ records[n].text = "[" \o h.prefix \o "] " \o BodyOf(h)
          /\ \A n \in 1..(Len(records) - 1) : records[n].call <= records[n + 1].call)
    /\ [][/\ Len(records') >= Len(records)
          /\ SubSeq(records', 1, Len(records)) = records
          /\ UpdatePrefixStep =>
                /\ records' = records
                /\ \A w \in Wrappers : wrappers'[w].start_times = wrappers[w].start_times]_vars

\* The same message logged before and after a change of prefix: two records,
\* the old prefix first
C8_Witness ==
    \E m, n \in 1..Len(records) :
        /\ m < n
        /\ records[m].logger # "root" /\ records[n].logger # "root"
        /\ hist[records[m].call].message = hist[records[n].call].message
        /\ hist[records[m].call].op = hist[records[n].call].op
        /\ hist[records[m].call].prefix = "OLD"
        /\ hist[records[n].call].prefix = "NEW"
        /\ records[m].text = "[OLD] M1" /\ records[n].text = "[NEW] M1"

\* The severity that corresponds to each leveled method
SeverityOf(method) ==
    CASE method = "debug" -> "DEBUG"
      [] method = "info" -> "INFO"
      [] method = "warning" -> "WARNING"
      [] method = "error" -> "ERROR"
      [] method = "critical" -> "CRITICAL"
      [] method = "exception" -> "ERROR"

\* The one record of a leveled call
OneRecord(h) == << <<SeverityOf(h.op), "[" \o h.prefix \o "] " \o h.message>> >>

\* C9 (as claimed): for any prefix P and message M one call of info(M), debug,
\* warning, error, critical or exception emits exactly one record, at the
\* method's severity, with text [P] M.
C9_OneRecordEachLevel ==
    \A c \in Calls :
        (hist[c].op \in LevelMethods /\ hist[c].done) => RecordsOf(c) = OneRecord(hist[c])

\* C9 (amended): info, warning, error, critical and exception emit exactly one
\* record, at the method's severity, with text [P] M; debug emits none, since
\* the configuration every wrapper is created under sets the level INFO.
C9_OneRecordFromInfoUp ==
    /\ wrappers # <<>> => root.level = "INFO"
    /\ \A c \in Calls :
          (hist[c].op \in LevelMethods /\ hist[c].done) =>
              RecordsOf(c) = IF hist[c].op = "debug" THEN <<>> ELSE OneRecord(hist[c])

\* A debug call and an exception call have returned
C9_Witness ==
    \E c, d \in Calls :
        /\ hist[c].op = "debug" /\ hist[c].done /\ RecordsOf(c) = <<>>
        /\ hist[d].op = "exception" /\ hist[d].done /\ Len(RecordsOf(d)) = 1

\* The kinds of the handlers in a list, in order
Kinds(hs) == [i \in 1..Len(hs) |-> hs[i].kind]

\* The kinds a configuring call attaches, by how its constructions went
KindsFor(cloud, file) ==
    <<"stream">> \o (IF cloud = "ok" THEN <<"cloud">> ELSE <<>>)
                 \o (IF file = "ok" THEN <<"file">> ELSE <<>>)

\* C11: the first configuration call completes with the stream handler
\* attached: a failed construction of the cloud or of the file handler takes
\* only that handler out of the attached set, the call still returns, and the
\* flag is true.
C11_SinkFailureTolerated ==
    (Len(hist) >= 1 /\ hist[1].op \in {"setup_logging", "get_prefixed_logger"}) =>
        /\ (hist[1].done \/ logging_configured) =>
              /\ logging_configured
              /\ Len(root.handlers) >= 1
              /\ root.handlers[1] = [kind |-> "stream"]
              /\ Kinds(root.handlers) = KindsFor(hist[1].cloud, hist[1].file)
        /\ \A t \in Threads :
              (frame[t].call = 1 /\ pc[t] \in {"setup_basic_config", "setup_attach"}) =>
                  Kinds(frame[t].handlers) = KindsFor(hist[1].cloud, hist[1].file)

\* The first call asked for all three handlers, the file handler's
\* construction failed, and the call returned
C11_Witness ==
    /\ Len(hist) >= 1 /\ hist[1].done
    /\ hist[1].cloud = "ok" /\ hist[1].file = "failed"
    /\ logging_configured
    /\ Kinds(root.handlers) = <<"stream", "cloud">>

\* The calls that have set wrapper w's prefix: its construction and the
\* update_prefix calls
PrefixCalls(w) ==
    {c \in Calls : /\ hist[c].w = w /\ hist[c].done
                   /\ hist[c].op \in {"get_prefixed_logger", "update_prefix"}}

\* The largest member of a non-empty set of calls
Last(S) == CHOOSE c \in S : \A d \in S : d <= c

\* C12: the stored prefix is never empty or None: after construction and
\* after any sequence of update_prefix calls it is "no-prefix" if the prefix
\* last given was empty or None, and the prefix last given otherwise.
C12_PrefixNeverEmpty ==
    \A w \in Wrappers :
        /\ wrappers[w].prefix # ""
        /\ wrappers[w].prefix # None
        /\ PrefixCalls(w) # {}
        /\ LET given == hist[Last(PrefixCalls(w))].args.prefix
           IN  wrappers[w].prefix =
                 IF given = "" \/ given = None THEN "no-prefix" ELSE given

\* A wrapper constructed without prefix, given one, and then given an empty one
C12_Witness ==
    \E w \in Wrappers : \E a, b, c \in PrefixCalls(w) :
        /\ a < b /\ b < c /\ c = Len(hist)
        /\ hist[a].op = "get_prefixed_logger" /\ hist[a].args.prefix = None
        /\ hist[b].args.prefix = "NEW"
        /\ hist[c].args.prefix = ""
        /\ wrappers[w].prefix = "no-prefix"

\* The log_start calls of (w, key) that stored their instant before call c
StoredBefore(w, key, c) == {i \in Stored(w, key) : i < c}

\* C13: the start-time mapping belongs to one wrapper, also among wrappers of
\* one logger name: between calls a key is in a wrapper's mapping iff that
\* wrapper's own calls left it open; log_end(K) on a wrapper whose own calls
\* never started K takes the N/A path whatever the other wrappers hold; and a
\* step changes no mapping but that of the wrapper it was called on.
C13_TimingPerWrapper ==
    /\ [](/\ AllIdle => \A w \in Wrappers, k \in Keys :
                           k \in DOMAIN wrappers[w].start_times <=> Open(w, k)
          /\ \A c \in Calls :
               (hist[c].op = "log_end" /\ StoredBefore(hist[c].w, hist[c].key, c) = {}) =>
                   /\ hist[c].popped = NoneTime
                   /\ hist[c].done => EndRecordsMatch(c))
    /\ [][\A w \in Wrappers :
            wrappers'[w].start_times # wrappers[w].start_times =>
               \/ \E t \in Threads : pc[t] = "start_store" /\ frame[t].w = w
               \/ /\ Len(hist') = Len(hist) + 1
                  /\ hist'[Len(hist')].op = "log_end"
                  /\ hist'[Len(hist')].w = w]_vars

\* Two wrappers of one logger name: K was started on the first, then ended on
\* the second, which reported N/A, and is still open on the first
C13_Witness ==
    \E w1, w2 \in Wrappers : \E i, j \in Calls :
        /\ w1 # w2 /\ wrappers[w1].name = wrappers[w2].name
        /\ i < j
        /\ hist[i].op = "log_start" /\ hist[i].w = w1 /\ hist[i].start # NoneTime
        /\ hist[j].op = "log_end" /\ hist[j].w = w2 /\ hist[j].key = hist[i].key
        /\ hist[j].done /\ hist[j].popped = NoneTime
        /\ Len(RecordsOf(j)) = 2
        /\ hist[i].key \in DOMAIN wrappers[w1].start_times

\* The get_prefixed_logger calls that have returned
Made == {c \in Calls : hist[c].op = "get_prefixed_logger" /\ hist[c].done}

\* C17: every get_prefixed_logger call, also one made when the flag is true,
\* returns a new wrapper: it has the call's logger name, the call's prefix
\* ("no-prefix" for an empty or absent one) and an empty mapping, it is none of
\* the wrappers returned before, which its construction leaves as they were,
\* and no step changes the prefix or the mapping of two wrappers.
C17_FreshWrapper ==
    /\ [](/\ Cardinality(Made) = Len(wrappers)
          /\ \A c \in Made :
               /\ hist[c].w \in Wrappers
               /\ wrappers[hist[c].w].name = hist[c].args.logger_name
               /\ \A d \in Made : d # c => hist[d].w # hist[c].w)
    /\ [][/\ \A t \in Threads :
               (pc[t] = "construct" /\ pc'[t] = "idle") =>
                  /\ Len(wrappers') = Len(wrappers) + 1
                  /\ hist'[frame[t].call].w = Len(wrappers')
                  /\ wrappers'[Len(wrappers')] =
                        [name |-> frame[t].args.logger_name,
                         prefix |-> IF frame[t].args.prefix = None \/ frame[t].args.prefix = ""
                                    THEN "no-prefix" ELSE frame[t].args.prefix,
                         start_times |-> <<>>]
                  /\ \A w \in Wrappers : wrappers'[w] = wrappers[w]
          /\ \A w1, w2 \in Wrappers :
               (w1 # w2 /\ wrappers'[w1] # wrappers[w1]) => wrappers'[w2] = wrappers[w2]]_vars

\* A second wrapper of a logger name, made when the flag was true and the
\* first wrapper had a new prefix and an open key: it has its own call's
\* prefix and an empty mapping, and the first wrapper is as it was
C17_Witness ==
    \E c, d \in Made :
        /\ c < d
        /\ hist[d].cloud = "none"
        /\ hist[c].args.logger_name = hist[d].args.logger_name
        /\ hist[c].args.prefix = None /\ hist[d].args.prefix = "OLD"
        /\ wrappers[hist[c].w].prefix = "NEW"
        /\ wrappers[hist[c].w].start_times # <<>>
        /\ wrappers[hist[d].w].prefix = "OLD"
        /\ wrappers[hist[d].w].start_times = <<>>

\* C14: in every interleaving of concurrent configuration calls with differing
\* arguments, once all calls have returned the handlers attached are the ones
\* built by the call that began configuring first (the first to find the flag
\* false): no call that began later has replaced them.
C14_FirstBeginnerWins ==
    (AllIdle /\ logging_configured) =>
        \E i \in 1..Len(attachLog) :
            /\ hist[attachLog[i].call].began = 1
            /\ root.handlers = attachLog[i].handlers

\* The flag starts false, becomes true only in the step after the call's own
\* basicConfig, and never becomes false again
FlagMonotonic ==
    /\ [](Len(hist) = 0 => ~logging_configured)
    /\ [][/\ logging_configured => logging_configured'
          /\ (~logging_configured /\ logging_configured') =>
                \E t \in Threads :
                    /\ pc[t] = "setup_set_flag"
                    /\ \E i \in 1..Len(attachLog) : attachLog[i].call = frame[t].call]_vars

\* C15: the flag implies attachment: it is set true only after basicConfig
\* has attached the handlers and is never reset, so in every reachable state
\* in which the flag is true the root logger has its handlers, the stream
\* handler first.
C15_FlagImpliesAttached ==
    logging_configured =>
        /\ Len(root.handlers) >= 1
        /\ root.handlers[1] = [kind |-> "stream"]
        /\ root.level = "INFO"

\* The start instant a mapping holds for a key, NoneTime if it holds none
EntryOf(d, key) == IF key \in DOMAIN d THEN d[key] ELSE NoneTime

\* C16: beacon keys are independent: in any interleaving of threads' calls on
\* different keys, the presence and the stored instant of a key's entry change
\* only in the store of a log_start of that key and in the pop of a log_end of
\* that key; every other key's entry is left as it was.
C16_KeysIndependent ==
    [][\A w \in Wrappers, k \in Keys :
         EntryOf(wrappers'[w].start_times, k) # EntryOf(wrappers[w].start_times, k) =>
            \/ \E t \in Threads :
                  /\ pc[t] = "start_store" /\ pc'[t] # "start_store"
                  /\ frame[t].w = w /\ frame[t].key = k
            \/ /\ Len(hist') = Len(hist) + 1
               /\ hist'[Len(hist')].op = "log_end"
               /\ hist'[Len(hist')].w = w
               /\ hist'[Len(hist')].key = k]_vars

\* While one thread's log_start of a key was under way, another thread's
\* log_end of another key found that key's start and consumed it; the first
\* key is in the mapping with the instant its log_start stored
C16_Witness ==
    \E i, j \in Calls :
        /\ i < j
        /\ hist[i].op = "log_start" /\ hist[j].op = "log_end"
        /\ hist[i].w = hist[j].w /\ hist[i].key # hist[j].key
        /\ hist[i].thread # hist[j].thread
        /\ hist[i].done /\ hist[j].done
        /\ hist[j].popped # NoneTime
        /\ hist[i].start > hist[j].popped
        /\ \E m, n \in 1..Len(records) :
              m < n /\ records[m].call = j /\ records[n].call = i
        /\ EntryOf(wrappers[hist[i].w].start_times, hist[i].key) = hist[i].start
        /\ hist[j].key \notin DOMAIN wrappers[hist[j].w].start_times

====
